---- MODULE Spec2Model ----
(***************************************************************************)
(* InfraEnv (helper_classes/infra_env.py): an entity that binds a          *)
(* configuration record to one remote resource and drives it through the   *)
(* API client.  Every method is one action.  The calls a method issues to  *)
(* its collaborators (API client, static-network generator, utils, node    *)
(* controller) are recorded, in order, in `calls`; a collaborator call may *)
(* raise, which ends the method at that point.                             *)
(***************************************************************************)
EXTENDS Integers, Sequences, FiniteSets, TLC

VARIABLES
    cfg,      \* self._config
    remote,   \* the resource as the service holds it (NoResource when none)
    fs,       \* paths that exist on the local filesystem
    calls,    \* collaborator calls issued by the last method, in order
    outcome   \* the last method: its name, whether it raised, what it returned

vars == <<cfg, remote, fs, calls, outcome>>

(* ------------------------------ bounds --------------------------------- *)
MaxHosts == 2       \* host ids are 1..MaxHosts
NumIds == 2         \* identifiers the service may hand out are 1..NumIds

(* ------------------------------ values --------------------------------- *)
None == "None"      \* Python None, for string-valued fields
NoId == 0           \* Python None, for infra_env_id
NoPath == <<>>      \* Python None / "" for a path (a path is its components)
NoResource == [exists |-> FALSE]

HostIds == 1..MaxHosts
Ids == 1..NumIds

\* Python truthiness of a configuration value
Truthy(v) == v \notin {None, "", "{}", "[]"}

\* json.dumps: the dict becomes a string, which is not the dict
json_dumps(d) == "'" \o d \o "'"

\* os.path.dirname
dirname(p) == IF Len(p) = 0 THEN <<>> ELSE SubSeq(p, 1, Len(p) - 1)

\* os.path.exists
exists(files, p) == p \in files

IsPrefix(a, b) == Len(a) <= Len(b) /\ SubSeq(b, 1, Len(a)) = a

Ancestors(p) == {SubSeq(p, 1, n) : n \in 1..Len(p)}

\* utils.recreate_folder(folder, force_recreate): creates the folder when it
\* is absent; wipes and recreates it only when force_recreate is set
recreate_folder(files, folder, force_recreate) ==
    IF exists(files, folder) /\ force_recreate
    THEN {q \in files : ~IsPrefix(folder, q)} \cup Ancestors(folder)
    ELSE IF exists(files, folder) THEN files
    ELSE files \cup Ancestors(folder)

(* ------------------------- collaborator calls -------------------------- *)
\* a call that answered `value`
Call(fn, args, value) ==
    [fn |-> fn, args |-> args, resp |-> [ok |-> TRUE, value |-> value]]

\* the answer of a call that raised
Raised == [ok |-> FALSE, value |-> None]

\* A running method: its view of the state, the calls issued so far, whether
\* a call has raised, and the index of the call that is going to raise.
Begin(failAt) ==
    [cfg |-> cfg, remote |-> remote, fs |-> fs, calls |-> <<>>,
     raised |-> FALSE, failAt |-> failAt]

\* Issue one collaborator call: it is recorded, and it raises (answering
\* nothing) when it is the failAt-th call of the method.
Issue(st, c) ==
    LET fails == (Len(st.calls) + 1 = st.failAt)
    IN [st EXCEPT !.calls = Append(@, IF fails THEN [c EXCEPT !.resp = Raised] ELSE c),
                  !.raised = fails]

\* models.InfraEnvUpdateParams applied by the service to the resource
ApplyUpdate(res, params) ==
    IF ~res.exists THEN res
    ELSE [k \in DOMAIN res |-> IF k \in DOMAIN params THEN params[k] ELSE res[k]]

\* api_client.update_infra_env(infra_env_id, infra_env_update_params)
update_infra_env(st, params) ==
    LET s == Issue(st, Call("update_infra_env",
                            [infra_env_id |-> st.cfg.infra_env_id,
                             infra_env_update_params |-> params], None))
    IN IF s.raised THEN s
       ELSE [s EXCEPT !.remote = ApplyUpdate(@, params)]

\* Entity.update_config(**kwargs): sets the named configuration field
update_config(st, field, value) ==
    [st EXCEPT !.cfg = [@ EXCEPT ![field] = value]]

\* a one-call proxy method
Proxy(st, fn, args) == Issue(st, Call(fn, args, None))

\* The method ends: its effects and its calls become the state.
Finish(op, args, st, ret) ==
    /\ cfg' = st.cfg
    /\ remote' = st.remote
    /\ fs' = st.fs
    /\ calls' = st.calls
    /\ outcome' = [op |-> op, args |-> args, raised |-> st.raised,
                   ret |-> IF st.raised THEN None ELSE ret]

(* ------------------------------ _create -------------------------------- *)
\* variant: kernel_arguments is passed like the other optional fields
infraenv_create_params_all(c) ==
    [pull_secret |-> c.pull_secret,
     ssh_public_key |-> c.ssh_public_key,
     openshift_version |-> c.openshift_version,
     cluster_id |-> c.cluster_id,
     static_network_config |-> c.static_network_config,
     ignition_config_override |->
         IF Truthy(c.ignition_config_override)
         THEN json_dumps(c.ignition_config_override) ELSE None,
     proxy |-> c.proxy,
     image_type |-> c.iso_image_type,
     kernel_arguments |-> c.kernel_arguments]

\* the keyword payload _create builds from the configuration
infraenv_create_params(c) ==
    LET ignition_config_override ==
            IF Truthy(c.ignition_config_override)
            THEN json_dumps(c.ignition_config_override)
            ELSE None
        base == [pull_secret |-> c.pull_secret,
                 ssh_public_key |-> c.ssh_public_key,
                 openshift_version |-> c.openshift_version,
                 cluster_id |-> c.cluster_id,
                 static_network_config |-> c.static_network_config,
                 ignition_config_override |-> ignition_config_override,
                 proxy |-> c.proxy,
                 image_type |-> c.iso_image_type]
        withKernel ==
            IF c.kernel_arguments # None
            THEN ("kernel_arguments" :> c.kernel_arguments) @@ base
            ELSE base
    IN IF Truthy(c.cpu_architecture)
       THEN ("cpu_architecture" :> c.cpu_architecture) @@ withKernel
       ELSE withKernel

\* the resource the service registers for a creation payload
CreatedResource(kwargs) ==
    [exists |-> TRUE,
     proxy |-> kwargs.proxy,
     static_network_config |-> kwargs.static_network_config,
     image_type |-> kwargs.image_type,
     kernel_arguments |-> IF "kernel_arguments" \in DOMAIN kwargs
                          THEN kwargs.kernel_arguments ELSE None]

\* api_client.create_infra_env(name, **kwargs), answering with identifier newId
create_infra_env(st, name, kwargs, newId) ==
    LET s == Issue(st, Call("create_infra_env",
                            [name |-> name, kwargs |-> kwargs], newId))
    IN IF s.raised THEN s
       ELSE [s EXCEPT !.remote = CreatedResource(kwargs)]

\* variant: the answer is stored although the creation call raised
create_stores_on_failure(st, newId) ==
    LET s == create_infra_env(st, st.cfg.entity_name,
                              infraenv_create_params(st.cfg), newId)
    IN [s EXCEPT !.cfg.infra_env_id = newId]

create(st, newId) ==
    LET s == create_infra_env(st, st.cfg.entity_name,
                              infraenv_create_params(st.cfg), newId)
    IN IF s.raised THEN s
       ELSE [s EXCEPT !.cfg.infra_env_id = s.calls[Len(s.calls)].resp.value]

Create ==
    \E newId \in Ids, failAt \in 0..1 :
        LET s == create(Begin(failAt), newId)
        IN Finish("_create", <<>>, s, s.cfg.infra_env_id)

(* ---------------------------- deregister ------------------------------- *)
RECURSIVE deregister_listed_continue(_, _, _)
\* variant: a host whose deregistration raises is skipped and the loop goes on
deregister_listed_continue(st, listing, i) ==
    IF i > Len(listing) THEN st
    ELSE LET s == Issue(st, Call("v2_deregister_host",
                                 [infra_env_id |-> st.cfg.infra_env_id,
                                  host_id |-> listing[i].id], None))
         IN deregister_listed_continue([s EXCEPT !.raised = FALSE], listing, i + 1)

RECURSIVE deregister_listed(_, _, _)
\* the loop over the listing, from its i-th host on
deregister_listed(st, listing, i) ==
    IF i > Len(listing) THEN st
    ELSE LET s == Issue(st, Call("v2_deregister_host",
                                 [infra_env_id |-> st.cfg.infra_env_id,
                                  host_id |-> listing[i].id], None))
         IN IF s.raised THEN s ELSE deregister_listed(s, listing, i + 1)

\* variant: the resource is deregistered before its hosts
deregister_resource_first(st, deregister_hosts, listing) ==
    LET resDone == Issue(st, Call("deregister_infra_env",
                                  [infra_env_id |-> st.cfg.infra_env_id], None))
        hostsDone ==
            IF resDone.raised \/ ~deregister_hosts THEN resDone
            ELSE LET l == Issue(resDone, Call("v2_list_hosts",
                                              [infra_env_id |-> st.cfg.infra_env_id],
                                              listing))
                 IN IF l.raised THEN l
                    ELSE deregister_listed(l, l.calls[Len(l.calls)].resp.value, 1)
    IN IF hostsDone.raised THEN hostsDone
       ELSE [hostsDone EXCEPT !.remote = NoResource, !.cfg.infra_env_id = NoId]

deregister(st, deregister_hosts, listing) ==
    LET hostsDone ==
            IF deregister_hosts
            THEN LET l == Issue(st, Call("v2_list_hosts",
                                         [infra_env_id |-> st.cfg.infra_env_id],
                                         listing))
                 IN IF l.raised THEN l
                    ELSE deregister_listed(l, l.calls[Len(l.calls)].resp.value, 1)
            ELSE st
        resDone ==
            IF hostsDone.raised THEN hostsDone
            ELSE Issue(hostsDone, Call("deregister_infra_env",
                                       [infra_env_id |-> st.cfg.infra_env_id], None))
    IN IF resDone.raised THEN resDone
       ELSE [resDone EXCEPT !.remote = NoResource, !.cfg.infra_env_id = NoId]

\* what v2_list_hosts may answer: the hosts of the resource, each once
Listings ==
    {[i \in 1..Len(q) |-> [id |-> q[i]]] :
        q \in {r \in UNION {[1..n -> HostIds] : n \in 0..MaxHosts} :
                  \A i, j \in 1..Len(r) : i # j => r[i] # r[j]}}

Deregister ==
    \E deregister_hosts \in BOOLEAN, listing \in Listings,
       failAt \in 0..(MaxHosts + 2) :
        /\ ~deregister_hosts => listing = <<>>
        /\ failAt <= (IF deregister_hosts THEN Len(listing) + 2 ELSE 1)
        /\ Finish("deregister", [deregister_hosts |-> deregister_hosts],
                  deregister(Begin(failAt), deregister_hosts, listing), None)

(* ------------------------- configuration updates ----------------------- *)
\* variant: the pushed parameters are built before the configuration is updated
update_proxy_stale(st, proxy) ==
    LET s == update_config(st, "proxy", proxy)
    IN update_infra_env(s, [proxy |-> st.cfg.proxy])

update_proxy(st, proxy) ==
    LET s == update_config(st, "proxy", proxy)
    IN update_infra_env(s, [proxy |-> s.cfg.proxy])

update_infra_env_kernel(st, kernel_arguments) ==
    LET s == update_config(st, "kernel_arguments", kernel_arguments)
    IN update_infra_env(s, [kernel_arguments |-> kernel_arguments])

update_static_network_config(st, static_network_config) ==
    LET s == update_config(st, "static_network_config", static_network_config)
    IN update_infra_env(s, [static_network_config |-> static_network_config])

\* static_network.generate_static_network_data_from_tf(tf_folder, config),
\* answering with the configuration `generated`
generate_static_network_data_from_tf(st, generated) ==
    Issue(st, Call("generate_static_network_data_from_tf",
                   [tf_folder |-> st.cfg.tf_folder], generated))

\* variant: a configuration is generated on every invocation
update_static_network_regenerates(st, generated) ==
    IF ~st.cfg.is_static_ip THEN st
    ELSE LET c == generate_static_network_data_from_tf(st, generated)
             g == IF c.raised THEN c
                  ELSE [c EXCEPT !.cfg.static_network_config =
                                     c.calls[Len(c.calls)].resp.value]
         IN IF g.raised THEN g
            ELSE update_infra_env(g, [static_network_config |->
                                          g.cfg.static_network_config])

\* variant: the is_static_ip test is missing
update_static_network_unguarded(st, generated) ==
    LET g == IF st.cfg.static_network_config = None
             THEN LET c == generate_static_network_data_from_tf(st, generated)
                  IN IF c.raised THEN c
                     ELSE [c EXCEPT !.cfg.static_network_config =
                                        c.calls[Len(c.calls)].resp.value]
             ELSE st
    IN IF g.raised THEN g
       ELSE update_infra_env(g, [static_network_config |->
                                     g.cfg.static_network_config])

update_static_network(st, generated) ==
    IF ~st.cfg.is_static_ip THEN st
    ELSE LET g == IF st.cfg.static_network_config = None
                  THEN LET c == generate_static_network_data_from_tf(st, generated)
                       IN IF c.raised THEN c
                          ELSE [c EXCEPT !.cfg.static_network_config =
                                             c.calls[Len(c.calls)].resp.value]
                  ELSE st
         IN IF g.raised THEN g
            ELSE update_infra_env(g, [static_network_config |->
                                          g.cfg.static_network_config])

update_existing(st) ==
    update_infra_env(st, [image_type |-> st.cfg.iso_image_type])

\* values the callers pass
Proxies == {"proxy1"}
KernelArguments == {"[karg]"}
StaticConfigs == {"[nmstate1]"}
Generated == {"[generated]"}

UpdateProxy ==
    \E proxy \in Proxies, failAt \in 0..1 :
        Finish("update_proxy", [proxy |-> proxy],
               update_proxy(Begin(failAt), proxy), None)

UpdateInfraEnvKernel ==
    \E k \in KernelArguments, failAt \in 0..1 :
        Finish("update_infra_env_kernel", [kernel_arguments |-> k],
               update_infra_env_kernel(Begin(failAt), k), None)

UpdateStaticNetworkConfig ==
    \E c \in StaticConfigs, failAt \in 0..1 :
        Finish("update_static_network_config", [static_network_config |-> c],
               update_static_network_config(Begin(failAt), c), None)

UpdateStaticNetwork ==
    \E generated \in Generated, failAt \in 0..2 :
        Finish("_update_static_network", <<>>,
               update_static_network(Begin(failAt), generated), None)

UpdateExisting ==
    \E failAt \in 0..1 :
        LET s == update_existing(Begin(failAt))
        IN Finish("update_existing", <<>>, s, s.cfg.infra_env_id)

(* ------------------------------ downloads ------------------------------ *)
\* variant: the folder is prepared with force_recreate left at its default
ensure_file_path_forced(st, path) ==
    IF ~exists(st.fs, path)
    THEN LET c == Issue(st, Call("recreate_folder",
                                 [folder |-> dirname(path),
                                  force_recreate |-> TRUE], None))
         IN IF c.raised THEN c
            ELSE [c EXCEPT !.fs = recreate_folder(@, dirname(path), TRUE)]
    ELSE st

\* "ensure file path exists before downloading": the folder of the path is
\* prepared, without force, when the path itself does not exist
ensure_file_path(st, path) ==
    IF ~exists(st.fs, path)
    THEN LET c == Issue(st, Call("recreate_folder",
                                 [folder |-> dirname(path),
                                  force_recreate |-> FALSE], None))
         IN IF c.raised THEN c
            ELSE [c EXCEPT !.fs = recreate_folder(@, dirname(path), FALSE)]
    ELSE st

get_details(st) ==
    Issue(st, Call("get_infra_env", [infra_env_id |-> st.cfg.infra_env_id],
                   [download_url |-> "https://image"]))

get_iso_download_path(c, iso_download_path) ==
    IF iso_download_path # NoPath THEN iso_download_path ELSE c.iso_download_path

\* utils.download_file(url, path, verify_ssl), answering `answer`: the file is
\* written at path
download_file(st, url, path, verify_ssl, answer) ==
    LET s == Issue(st, Call("download_file",
                            [url |-> url, path |-> path, verify_ssl |-> verify_ssl],
                            answer))
    IN IF s.raised THEN s ELSE [s EXCEPT !.fs = @ \cup {path}]

download_image(st, iso_download_path, generated, answersPath) ==
    LET d == get_details(st)
        path == get_iso_download_path(st.cfg, iso_download_path)
        f == IF d.raised THEN d ELSE ensure_file_path(d, path)
        n == IF f.raised THEN f ELSE update_static_network(f, generated)
        c == IF n.raised THEN n
             ELSE Issue(n, Call("set_download_path", [path |-> path], None))
    IN IF c.raised THEN c
       ELSE download_file(c, d.calls[1].resp.value.download_url, path,
                          st.cfg.verify_download_iso_ssl,
                          IF answersPath THEN path ELSE None)

download_infra_env_file(st, file_name, file_path) ==
    LET f == ensure_file_path(st, file_path)
    IN IF f.raised THEN f
       ELSE LET s == Issue(f, Call("download_and_save_infra_env_file",
                                   [infra_env_id |-> st.cfg.infra_env_id,
                                    file_name |-> file_name,
                                    file_path |-> file_path], None))
            IN IF s.raised THEN s ELSE [s EXCEPT !.fs = @ \cup {file_path}]

ConfigIsoPath == <<"images", "cluster.iso">>
ArgIsoPaths == {NoPath, <<"tmp", "other.iso">>}
OldFile == <<"images", "old.iso">>
IgnPath == <<"images", "discovery.ign">>

DownloadImageTo(paths) ==
    \E p \in paths, generated \in Generated, answersPath \in BOOLEAN,
       failAt \in 0..6 :
        LET s == download_image(Begin(failAt), p, generated, answersPath)
        IN /\ failAt <= Len(s.calls)
           /\ Finish("download_image", [iso_download_path |-> p], s,
                     s.calls[Len(s.calls)].resp.value)

DownloadInfraEnvFile ==
    \E failAt \in 0..2 :
        LET s == download_infra_env_file(Begin(failAt), "discovery.ign", IgnPath)
        IN /\ failAt <= Len(s.calls)
           /\ Finish("download_infra_env_file",
                     [file_name |-> "discovery.ign", file_path |-> IgnPath], s, None)

(* ------------------------------ host proxies --------------------------- *)
KNOWN_UNBOUND == "known-unbound"
INSUFFICIENT_UNBOUND == "insufficient-unbound"
NODES_REGISTERED_TIMEOUT == "NODES_REGISTERED_TIMEOUT"

wait_until_hosts_are_discovered(st, nodes_count, allow_insufficient) ==
    LET statuses == IF allow_insufficient
                    THEN <<KNOWN_UNBOUND, INSUFFICIENT_UNBOUND>>
                    ELSE <<KNOWN_UNBOUND>>
    IN Proxy(st, "wait_till_all_infra_env_hosts_are_in_status",
             [infra_env_id |-> st.cfg.infra_env_id, nodes_count |-> nodes_count,
              statuses |-> statuses, timeout |-> NODES_REGISTERED_TIMEOUT])

update_host(st, host_id, host_role, host_name, node_labels, disks_skip_formatting) ==
    Proxy(st, "update_host",
          [infra_env_id |-> st.cfg.infra_env_id, host_id |-> host_id,
           host_role |-> host_role, host_name |-> host_name,
           node_labels |-> node_labels,
           disks_skip_formatting |-> disks_skip_formatting])

\* variant: the call is issued whether or not installer arguments are set
update_host_installer_args_always(st, host_id) ==
    Proxy(st, "v2_update_host_installer_args",
          [infra_env_id |-> st.cfg.infra_env_id, host_id |-> host_id,
           installer_args_params |-> st.cfg.host_installer_args])

update_host_installer_args(st, host_id) ==
    IF ~Truthy(st.cfg.host_installer_args) THEN st
    ELSE Proxy(st, "v2_update_host_installer_args",
               [infra_env_id |-> st.cfg.infra_env_id, host_id |-> host_id,
                installer_args_params |-> st.cfg.host_installer_args])

bind_host(st, host_id, cluster_id) ==
    Proxy(st, "bind_host", [infra_env_id |-> st.cfg.infra_env_id,
                            host_id |-> host_id, cluster_id |-> cluster_id])

unbind_host(st, host_id) ==
    Proxy(st, "unbind_host", [infra_env_id |-> st.cfg.infra_env_id,
                              host_id |-> host_id])

\* variant: deregistering a host also drops the resource handle
delete_host_clears_handle(st, host_id) ==
    LET s == Proxy(st, "deregister_host", [infra_env_id |-> st.cfg.infra_env_id,
                                           host_id |-> host_id])
    IN IF s.raised THEN s ELSE [s EXCEPT !.cfg.infra_env_id = NoId]

delete_host(st, host_id) ==
    Proxy(st, "deregister_host", [infra_env_id |-> st.cfg.infra_env_id,
                                  host_id |-> host_id])

select_host_installation_disk(st, host_id, disk_paths) ==
    Proxy(st, "select_installation_disk",
          [infra_env_id |-> st.cfg.infra_env_id, host_id |-> host_id,
           disk_paths |-> disk_paths])

\* api_client.get_discovery_ignition, answering the document `answer`
get_discovery_ignition(st, answer) ==
    Issue(st, Call("get_discovery_ignition",
                   [infra_env_id |-> st.cfg.infra_env_id], answer))

patch_discovery_ignition(st, ignition_info) ==
    Proxy(st, "patch_discovery_ignition",
          [infra_env_id |-> st.cfg.infra_env_id, ignition_info |-> ignition_info])

\* what get_discovery_ignition may answer
IgnitionDocuments == {None, "{ignition-doc}"}

WaitUntilHostsAreDiscovered ==
    \E allow_insufficient \in BOOLEAN, failAt \in 0..1 :
        Finish("wait_until_hosts_are_discovered",
               [nodes_count |-> MaxHosts, allow_insufficient |-> allow_insufficient],
               wait_until_hosts_are_discovered(Begin(failAt), MaxHosts,
                                               allow_insufficient), None)

UpdateHost ==
    \E h \in HostIds, role \in {None, "worker"}, failAt \in 0..1 :
        Finish("update_host", [host_id |-> h, host_role |-> role],
               update_host(Begin(failAt), h, role, None, None, None), None)

UpdateHostInstallerArgs ==
    \E h \in HostIds, failAt \in 0..1 :
        LET s == update_host_installer_args(Begin(failAt), h)
        IN /\ failAt <= Len(s.calls)
           /\ Finish("update_host_installer_args", [host_id |-> h], s, None)

BindHost ==
    \E h \in HostIds, failAt \in 0..1 :
        Finish("bind_host", [host_id |-> h, cluster_id |-> "cluster2"],
               bind_host(Begin(failAt), h, "cluster2"), None)

UnbindHost ==
    \E h \in HostIds, failAt \in 0..1 :
        Finish("unbind_host", [host_id |-> h], unbind_host(Begin(failAt), h), None)

DeleteHost ==
    \E h \in HostIds, failAt \in 0..1 :
        Finish("delete_host", [host_id |-> h], delete_host(Begin(failAt), h), None)

SelectHostInstallationDisk ==
    \E h \in HostIds, failAt \in 0..1 :
        Finish("select_host_installation_disk", [host_id |-> h],
               select_host_installation_disk(Begin(failAt), h, "[/dev/sda]"), None)

GetDiscoveryIgnition ==
    \E answer \in IgnitionDocuments, failAt \in 0..1 :
        LET s == get_discovery_ignition(Begin(failAt), answer)
        IN Finish("get_discovery_ignition", <<>>, s, s.calls[1].resp.value)

PatchDiscoveryIgnition ==
    \E failAt \in 0..1 :
        Finish("patch_discovery_ignition", <<>>,
               patch_discovery_ignition(Begin(failAt), "{patch}"), None)

GetDetails ==
    \E failAt \in 0..1 :
        LET s == get_details(Begin(failAt))
        IN Finish("get_details", <<>>, s, s.calls[1].resp.value)

(* --------------------------- the state machine ------------------------- *)
\* a configuration record before the resource is created
Config(static, snc, installer, ign, cluster, cpu, kernel, proxy) ==
    [infra_env_id |-> NoId,
     entity_name |-> "test-infra-env",
     pull_secret |-> "pull-secret",
     ssh_public_key |-> "ssh-key",
     openshift_version |-> "4.16",
     cluster_id |-> cluster,
     static_network_config |-> snc,
     ignition_config_override |-> ign,
     proxy |-> proxy,
     iso_image_type |-> "full-iso",
     kernel_arguments |-> kernel,
     cpu_architecture |-> cpu,
     iso_download_path |-> ConfigIsoPath,
     verify_download_iso_ssl |-> TRUE,
     is_static_ip |-> static,
     host_installer_args |-> installer,
     tf_folder |-> "tf"]

InitRest ==
    /\ remote = NoResource
    /\ calls = <<>>
    /\ outcome = [op |-> "__init__", args |-> <<>>, raised |-> FALSE, ret |-> None]

\* The whole entity: every method, on one static-IP configuration whose
\* download destinations exist.
Init ==
    /\ cfg = Config(TRUE, None, "[--copy-network]", None, None, None, None, None)
    /\ fs = {<<"images">>, OldFile, ConfigIsoPath, IgnPath}
    /\ InitRest

Next ==
    \/ Create
    \/ Deregister
    \/ UpdateExisting
    \/ UpdateProxy
    \/ UpdateInfraEnvKernel
    \/ UpdateStaticNetworkConfig
    \/ UpdateStaticNetwork
    \/ DownloadImageTo({NoPath})
    \/ DownloadInfraEnvFile
    \/ WaitUntilHostsAreDiscovered
    \/ UpdateHost
    \/ UpdateHostInstallerArgs
    \/ BindHost
    \/ UnbindHost
    \/ DeleteHost
    \/ SelectHostInstallationDisk
    \/ GetDiscoveryIgnition
    \/ PatchDiscoveryIgnition
    \/ GetDetails

Spec == Init /\ [][Next]_vars

\* Creation: every combination of the optional configuration fields.
InitCreate ==
    /\ \E snc \in {None} \cup StaticConfigs, ign \in {None, "{}", "{ignition}"},
          cluster \in {None, "cluster1"}, cpu \in {None, "", "arm64"},
          kernel \in {None, "[]", "[karg]"}, proxy \in {None, "proxy0"},
          image \in {None, "full-iso"} :
          cfg = [Config(FALSE, snc, None, ign, cluster, cpu, kernel, proxy)
                    EXCEPT !.iso_image_type = image]
    /\ fs = {<<"images">>, OldFile}
    /\ InitRest

NextCreate ==
    \/ Create
    \/ UpdateExisting
    \/ GetDetails

SpecCreate == InitCreate /\ [][NextCreate]_vars

\* The configuration updates, with and without static addressing.
InitSync ==
    /\ \E static \in BOOLEAN, snc \in {None} \cup StaticConfigs,
          proxy \in {None, "proxy0"} :
          cfg = Config(static, snc, None, None, None, None, None, proxy)
    /\ fs = {<<"images">>, OldFile}
    /\ InitRest

NextSync ==
    \/ Create
    \/ UpdateProxy
    \/ UpdateInfraEnvKernel
    \/ UpdateStaticNetworkConfig
    \/ UpdateStaticNetwork
    \/ DownloadImageTo({NoPath})

SpecSync == InitSync /\ [][NextSync]_vars

\* The downloads, on filesystems with and without the destination.
InitDownload ==
    /\ \E static \in BOOLEAN :
          cfg = Config(static, None, None, None, None, None, None, None)
    /\ fs \in {{}, {<<"images">>, OldFile}, {<<"images">>, OldFile, ConfigIsoPath}}
    /\ InitRest

NextDownload ==
    \/ Create
    \/ DownloadImageTo(ArgIsoPaths)
    \/ DownloadInfraEnvFile

SpecDownload == InitDownload /\ [][NextDownload]_vars

\* The host operations and deregistration, with installer arguments unset,
\* empty and set.
InitHosts ==
    /\ \E installer \in {None, "", "[--copy-network]"} :
          cfg = Config(FALSE, None, installer, None, None, None, None, None)
    /\ fs = {<<"images">>, OldFile}
    /\ InitRest

NextHosts ==
    \/ Create
    \/ Deregister
    \/ UpdateHost
    \/ UpdateHostInstallerArgs
    \/ BindHost
    \/ UnbindHost
    \/ DeleteHost
    \/ SelectHostInstallationDisk

SpecHosts == InitHosts /\ [][NextHosts]_vars

(* ------------------------------ properties ----------------------------- *)
\* the positions in a call log of the calls to fn
Idx(cs, fn) == {i \in 1..Len(cs) : cs[i].fn = fn}

\* C1: a deregister(deregister_hosts=True) that completes has listed the
\* hosts, then issued exactly one host deregistration per listed host, in the
\* order of the listing, then the resource-level deregistration, and has
\* cleared the handle; and whenever a deregister has cleared a handle that was
\* set, its last call is the resource-level deregistration and it succeeded.
C1_DeregisterOrder ==
    /\ (outcome.op = "deregister" /\ outcome.args.deregister_hosts /\ ~outcome.raised) =>
          LET listing == calls[1].resp.value
              n == Len(listing)
          IN /\ calls[1].fn = "v2_list_hosts"
             /\ Len(calls) = n + 2
             /\ \A i \in 1..n :
                   /\ calls[i + 1].fn = "v2_deregister_host"
                   /\ calls[i + 1].args.host_id = listing[i].id
             /\ \A i \in 1..n :
                   Cardinality({j \in Idx(calls, "v2_deregister_host") :
                                   calls[j].args.host_id = listing[i].id}) = 1
             /\ calls[n + 2].fn = "deregister_infra_env"
             /\ cfg.infra_env_id = NoId
    /\ (/\ outcome.op = "deregister"
        /\ calls[1].args.infra_env_id # NoId
        /\ cfg.infra_env_id = NoId) =>
          /\ calls[Len(calls)].fn = "deregister_infra_env"
          /\ calls[Len(calls)].resp.ok
          /\ Idx(calls, "deregister_infra_env") = {Len(calls)}

C1_Witness ==
    /\ outcome.op = "deregister"
    /\ outcome.args.deregister_hosts
    /\ ~outcome.raised
    /\ Len(calls) >= 4
    /\ calls[1].args.infra_env_id # NoId
    /\ cfg.infra_env_id = NoId

\* C4: when the host listing or a host deregistration raises during
\* deregister(deregister_hosts=True), the method raises, the failed call is
\* the last call it issues, no resource-level deregistration is issued, the
\* calls made are only the listing and the deregistrations of the hosts
\* listed before the failed one (nothing is undone), and the handle and the
\* remote resource are as before.
C4_AbortOnHostFailure ==
    [][(/\ outcome'.op = "deregister"
        /\ outcome'.args.deregister_hosts
        /\ \E i \in 1..Len(calls') :
              /\ calls'[i].fn \in {"v2_list_hosts", "v2_deregister_host"}
              /\ ~calls'[i].resp.ok) =>
          LET n == Len(calls')
          IN /\ outcome'.raised
             /\ ~calls'[n].resp.ok
             /\ \A i \in 1..(n - 1) : calls'[i].resp.ok
             /\ Idx(calls', "deregister_infra_env") = {}
             /\ calls'[1].fn = "v2_list_hosts"
             /\ \A i \in 2..n :
                   /\ calls'[i].fn = "v2_deregister_host"
                   /\ calls'[i].args.host_id = calls'[1].resp.value[i - 1].id
             /\ cfg'.infra_env_id = cfg.infra_env_id
             /\ remote' = remote]_vars

C4_Witness ==
    /\ outcome.op = "deregister"
    /\ outcome.args.deregister_hosts
    /\ outcome.raised
    /\ Len(calls) = 3
    /\ Len(calls[1].resp.value) = 2
    /\ calls[2].resp.ok
    /\ cfg.infra_env_id # NoId
    /\ remote.exists

\* C9: update_host_installer_args issues no call when the configured
\* installer arguments are unset (None or empty), and otherwise exactly one
\* v2_update_host_installer_args call, carrying the configured arguments
\* unchanged, the given host id and the current resource id.
C9_InstallerArgs ==
    outcome.op = "update_host_installer_args" =>
        IF cfg.host_installer_args = None \/ cfg.host_installer_args = ""
        THEN calls = <<>> /\ ~outcome.raised
        ELSE /\ Len(calls) = 1
             /\ calls[1].fn = "v2_update_host_installer_args"
             /\ calls[1].args.installer_args_params = cfg.host_installer_args
             /\ calls[1].args.host_id = outcome.args.host_id
             /\ calls[1].args.infra_env_id = cfg.infra_env_id

C9_Witness ==
    /\ outcome.op = "update_host_installer_args"
    /\ cfg.host_installer_args = "[--copy-network]"
    /\ Len(calls) = 1
    /\ calls[1].resp.ok
    /\ cfg.infra_env_id # NoId

\* C7: a _create whose creation call answers leaves the handle equal to the
\* answered identifier, not None, and returns it; a _create whose creation
\* call raises raises itself and leaves the handle as it was.
C7_CreateHandle ==
    [][outcome'.op = "_create" =>
          /\ Len(calls') = 1
          /\ calls'[1].fn = "create_infra_env"
          /\ calls'[1].resp.ok =>
                /\ ~outcome'.raised
                /\ cfg'.infra_env_id = calls'[1].resp.value
                /\ cfg'.infra_env_id # NoId
                /\ outcome'.ret = calls'[1].resp.value
          /\ ~calls'[1].resp.ok =>
                /\ outcome'.raised
                /\ cfg'.infra_env_id = cfg.infra_env_id]_vars

C7_Witness ==
    /\ outcome.op = "_create"
    /\ ~outcome.raised
    /\ calls[1].resp.ok
    /\ cfg.infra_env_id = calls[1].resp.value
    /\ cfg.infra_env_id = NumIds

\* the optional fields: <<configuration field, payload key>>
OptionalFields ==
    {<<"cluster_id", "cluster_id">>,
     <<"static_network_config", "static_network_config">>,
     <<"ignition_config_override", "ignition_config_override">>,
     <<"proxy", "proxy">>,
     <<"iso_image_type", "image_type">>,
     <<"kernel_arguments", "kernel_arguments">>,
     <<"cpu_architecture", "cpu_architecture">>}

\* C6 as stated: every optional key of the creation payload is a field that
\* is set in the configuration (an unset field is not a key of the payload).
C6_OnlyPresentFields ==
    outcome.op = "_create" =>
        \A f \in OptionalFields :
            f[2] \in DOMAIN calls[1].args.kwargs => cfg[f[1]] # None

\* C6 amended: the payload always has the keys cluster_id,
\* static_network_config, ignition_config_override, proxy and image_type,
\* holding the configured value, None when the field is unset (the ignition
\* override JSON-serialized when non-empty, None otherwise); only
\* kernel_arguments (a key exactly when not None) and cpu_architecture (a key
\* exactly when neither None nor empty) are left out when unset.
C6_PayloadKeys ==
    outcome.op = "_create" =>
        LET kw == calls[1].args.kwargs
        IN /\ DOMAIN kw \ {"kernel_arguments", "cpu_architecture"} =
                 {"pull_secret", "ssh_public_key", "openshift_version",
                  "cluster_id", "static_network_config",
                  "ignition_config_override", "proxy", "image_type"}
           /\ kw.cluster_id = cfg.cluster_id
           /\ kw.static_network_config = cfg.static_network_config
           /\ kw.proxy = cfg.proxy
           /\ kw.image_type = cfg.iso_image_type
           /\ kw.ignition_config_override =
                 (IF cfg.ignition_config_override \in {None, "{}"} THEN None
                  ELSE "'" \o cfg.ignition_config_override \o "'")
           /\ ("kernel_arguments" \in DOMAIN kw) <=> (cfg.kernel_arguments # None)
           /\ ("kernel_arguments" \in DOMAIN kw) =>
                 kw.kernel_arguments = cfg.kernel_arguments
           /\ ("cpu_architecture" \in DOMAIN kw) <=>
                 (cfg.cpu_architecture \notin {None, ""})
           /\ ("cpu_architecture" \in DOMAIN kw) =>
                 kw.cpu_architecture = cfg.cpu_architecture

C6_Witness ==
    /\ outcome.op = "_create"
    /\ cfg.cluster_id = None
    /\ "cluster_id" \in DOMAIN calls[1].args.kwargs
    /\ calls[1].args.kwargs.cluster_id = None
    /\ cfg.kernel_arguments = None
    /\ "kernel_arguments" \notin DOMAIN calls[1].args.kwargs
    /\ cfg.ignition_config_override = "{ignition}"

\* C10 as stated: the handle changes only in a _create that succeeds, from
\* unset to set, and in a deregister that succeeds, from set to unset; every
\* other method, and every method that raises, leaves it unchanged.
C10_CreateFromUnset ==
    [][cfg'.infra_env_id # cfg.infra_env_id =>
          \/ /\ outcome'.op = "_create"
             /\ ~outcome'.raised
             /\ cfg.infra_env_id = NoId
             /\ cfg'.infra_env_id # NoId
          \/ /\ outcome'.op = "deregister"
             /\ ~outcome'.raised
             /\ cfg.infra_env_id # NoId
             /\ cfg'.infra_env_id = NoId]_vars

\* C10 amended: the handle changes only in a _create that succeeds, which
\* leaves it set whatever it was before (an unset handle becomes set, a set
\* handle is replaced by the newly answered identifier), and in a deregister
\* that succeeds, from set to unset; every other method, and every method
\* that raises, leaves it unchanged.
C10_HandleFrame ==
    [][cfg'.infra_env_id # cfg.infra_env_id =>
          \/ /\ outcome'.op = "_create"
             /\ ~outcome'.raised
             /\ cfg'.infra_env_id # NoId
          \/ /\ outcome'.op = "deregister"
             /\ ~outcome'.raised
             /\ cfg.infra_env_id # NoId
             /\ cfg'.infra_env_id = NoId]_vars

C10_Witness ==
    /\ outcome.op = "delete_host"
    /\ ~outcome.raised
    /\ cfg.infra_env_id # NoId
    /\ remote.exists

\* C2 as stated: while the resource exists, the local proxy, kernel arguments
\* and static network config equal the ones the remote resource has.
C2_LocalEqualsRemote ==
    remote.exists =>
        /\ cfg.proxy = remote.proxy
        /\ cfg.kernel_arguments = remote.kernel_arguments
        /\ cfg.static_network_config = remote.static_network_config

UpdateOps ==
    {"update_proxy", "update_infra_env_kernel", "update_static_network_config",
     "_update_static_network"}

UpdatedField(op) ==
    CASE op = "update_proxy" -> "proxy"
      [] op = "update_infra_env_kernel" -> "kernel_arguments"
      [] OTHER -> "static_network_config"

\* C2 amended: update_proxy, update_infra_env_kernel and
\* update_static_network_config set the local field to the requested value
\* whether or not the remote update then succeeds; every value these
\* methods and _update_static_network push is the local value of the field;
\* when the push succeeds the remote resource has the local value of the
\* field, and when the method raises the remote resource is unchanged, so
\* the local value may be one the remote resource does not have.
C2_LocalAheadOnFailure ==
    [][outcome'.op \in UpdateOps =>
          LET f == UpdatedField(outcome'.op)
              pushes == Idx(calls', "update_infra_env")
          IN /\ outcome'.op # "_update_static_network" =>
                   /\ cfg'[f] = outcome'.args[f]
                   /\ pushes = {1}
             /\ \A i \in pushes :
                   /\ DOMAIN calls'[i].args.infra_env_update_params = {f}
                   /\ calls'[i].args.infra_env_update_params[f] = cfg'[f]
             /\ \A g \in {"proxy", "kernel_arguments", "static_network_config"} \ {f} :
                   cfg'[g] = cfg[g]
             /\ outcome'.raised => remote' = remote
             /\ (~outcome'.raised /\ pushes # {} /\ remote'.exists) =>
                   /\ remote'[f] = cfg'[f]
                   /\ \A g \in DOMAIN remote \ {f} : remote'[g] = remote[g]]_vars

C2_Witness ==
    /\ outcome.op = "update_proxy"
    /\ outcome.raised
    /\ remote.exists
    /\ cfg.proxy = outcome.args.proxy
    /\ cfg.proxy # remote.proxy

\* C3: with static addressing and no static network config,
\* _update_static_network calls the generator exactly once, first; when the
\* generator answers, its answer is the local config from then on (also
\* when the push then raises) and the one push carries it; with a config
\* already present the generator is not called, the local config stays as it
\* is and the one push carries it.
C3_GenerateOnce ==
    [][(outcome'.op = "_update_static_network" /\ cfg.is_static_ip) =>
          LET gens == Idx(calls', "generate_static_network_data_from_tf")
              pushes == Idx(calls', "update_infra_env")
          IN IF cfg.static_network_config = None
             THEN /\ gens = {1}
                  /\ IF calls'[1].resp.ok
                     THEN /\ cfg'.static_network_config = calls'[1].resp.value
                          /\ pushes = {2}
                          /\ Len(calls') = 2
                          /\ calls'[2].args.infra_env_update_params =
                                [static_network_config |-> calls'[1].resp.value]
                     ELSE /\ pushes = {}
                          /\ outcome'.raised
                          /\ cfg'.static_network_config = None
             ELSE /\ gens = {}
                  /\ cfg'.static_network_config = cfg.static_network_config
                  /\ pushes = {1}
                  /\ Len(calls') = 1
                  /\ calls'[1].args.infra_env_update_params =
                        [static_network_config |-> cfg.static_network_config]]_vars

C3_Witness ==
    /\ outcome.op = "_update_static_network"
    /\ cfg.is_static_ip
    /\ Len(calls) = 1
    /\ calls[1].fn = "update_infra_env"
    /\ cfg.static_network_config \in Generated
    /\ calls[1].args.infra_env_update_params.static_network_config \in Generated

\* C8: without static addressing _update_static_network issues no call, does
\* not raise and leaves the configuration and the remote resource as they
\* are, and download_image does not call the static-network generator and
\* leaves the local static network config as it is.
C8_NotStaticNoOp ==
    [][~cfg.is_static_ip =>
          /\ outcome'.op = "_update_static_network" =>
                /\ calls' = <<>>
                /\ ~outcome'.raised
                /\ cfg' = cfg
                /\ remote' = remote
          /\ outcome'.op = "download_image" =>
                /\ Idx(calls', "generate_static_network_data_from_tf") = {}
                /\ cfg'.static_network_config = cfg.static_network_config]_vars

C8_Witness ==
    /\ outcome.op = "download_image"
    /\ ~outcome.raised
    /\ ~cfg.is_static_ip
    /\ cfg.static_network_config = None
    /\ Idx(calls, "download_file") # {}

\* C5 as stated: whenever download_image, on a created resource, issues the
\* transfer, a directory-preparation call precedes it.
C5_AlwaysPrepares ==
    (/\ outcome.op = "download_image"
     /\ cfg.infra_env_id # NoId
     /\ Idx(calls, "download_file") # {}) =>
        \E i \in Idx(calls, "recreate_folder") :
            \A j \in Idx(calls, "download_file") : i < j

\* C5 amended: download_image calls directory-preparation exactly when the
\* destination path does not exist yet (and the details were fetched); the
\* call is made once, for the folder of the destination, without force, and
\* before the transfer; when the destination path exists it is skipped; in
\* every case no path that existed is removed.
C5_PreparesWhenAbsent ==
    [][outcome'.op = "download_image" =>
          LET path == IF outcome'.args.iso_download_path # NoPath
                      THEN outcome'.args.iso_download_path
                      ELSE cfg.iso_download_path
              prep == Idx(calls', "recreate_folder")
          IN /\ (prep # {}) <=> (calls'[1].resp.ok /\ path \notin fs)
             /\ \A i \in prep :
                   /\ i = 2
                   /\ calls'[i].args.folder = SubSeq(path, 1, Len(path) - 1)
                   /\ calls'[i].args.force_recreate = FALSE
                   /\ \A j \in Idx(calls', "download_file") : i < j
             /\ \A j \in Idx(calls', "download_file") :
                   /\ j = Len(calls')
                   /\ calls'[j].args.path = path
             /\ fs \subseteq fs']_vars

C5_Witness ==
    /\ outcome.op = "download_image"
    /\ ~outcome.raised
    /\ cfg.infra_env_id # NoId
    /\ Idx(calls, "recreate_folder") = {}
    /\ Idx(calls, "download_file") # {}
    /\ OldFile \in fs
====
